---- MODULE Spec2Model ----
(***************************************************************************)
(* The ingest lambda of the financial disclosures platform                 *)
(* (src/lambda/ingest.py): validate_row, the masking helpers, batch_write  *)
(* and lambda_handler, with the S3 bucket and the DynamoDB table they act  *)
(* on.                                                                     *)
(*                                                                         *)
(* A Python str is a sequence of one-character strings, so that strip,     *)
(* split, replace, the regular expressions and the parsers are computed    *)
(* character by character.  None is the one-element sequence <<"None">>    *)
(* (no character is four letters long).                                    *)
(***************************************************************************)
EXTENDS Integers, Sequences, FiniteSets, TLC

\* ------------------------------------------------------------------ bounds
MaxItems == 26          \* rows of the largest file of the batch-write runs
MaxFiles == 2           \* notifications in one event
MaxUploads == 1         \* times the source object is replaced during a run
FullSubsetLen == 2      \* requests up to this size: the store may report any subset

\* ------------------------------------------------------- program constants
BatchSize == 25         \* ingest.py:140  range(0, len(items), 25)
MaxRetries == 5         \* ingest.py:146  retries < 5
SsnTail == 4            \* ingest.py:37   ssn[-4:]
AmountDecimals == 2     \* ingest.py:63   f"{val:.2f}"

\* --------------------------------------------------------------- str basics
None == <<"None">>
DigitChars == <<"0", "1", "2", "3", "4", "5", "6", "7", "8", "9">>
HexLetters == {"a", "b", "c", "d", "e", "f", "A", "B", "C", "D", "E", "F"}

IsDigit(c) == \E i \in 1..10 : DigitChars[i] = c
DigitVal(c) == (CHOOSE i \in 1..10 : DigitChars[i] = c) - 1
IsHex(c) == IsDigit(c) \/ c \in HexLetters
IsSpace(c) == c \in {" ", "\t", "\n", "\r"}
AllDigits(s) == \A i \in 1..Len(s) : IsDigit(s[i])

RECURSIVE ToInt(_)
ToInt(s) ==
    IF s = <<>> THEN 0
    ELSE 10 * ToInt(SubSeq(s, 1, Len(s) - 1)) + DigitVal(s[Len(s)])

RECURSIVE IntToStr(_)
IntToStr(n) ==
    IF n < 10 THEN <<DigitChars[n + 1]>>
    ELSE IntToStr(n \div 10) \o <<DigitChars[(n % 10) + 1]>>

RECURSIVE Pow10(_)
Pow10(k) == IF k = 0 THEN 1 ELSE 10 * Pow10(k - 1)

RECURSIVE Rep(_, _)
Rep(c, n) == IF n = 0 THEN <<>> ELSE <<c>> \o Rep(c, n - 1)

\* zero-padded decimal of width w (the %04d / %02d of date.isoformat)
Pad(n, w) ==
    LET d == IntToStr(n) IN
    IF Len(d) >= w THEN d ELSE Rep("0", w - Len(d)) \o d

RECURSIVE LStrip(_)
LStrip(s) == IF s # <<>> /\ IsSpace(s[1]) THEN LStrip(Tail(s)) ELSE s

RECURSIVE RStrip(_)
RStrip(s) ==
    IF s # <<>> /\ IsSpace(s[Len(s)]) THEN RStrip(SubSeq(s, 1, Len(s) - 1)) ELSE s

\* str.strip()
Strip(s) == RStrip(LStrip(s))

\* str.replace(old, "") for a one-character old
RECURSIVE RemoveChar(_, _)
RemoveChar(s, c) ==
    IF s = <<>> THEN <<>>
    ELSE IF s[1] = c THEN RemoveChar(Tail(s), c)
    ELSE <<s[1]>> \o RemoveChar(Tail(s), c)

StartsWith(s, p) == Len(s) >= Len(p) /\ SubSeq(s, 1, Len(p)) = p

\* str.replace(old, ""): leftmost, non-overlapping occurrences removed
RECURSIVE RemoveAll(_, _)
RemoveAll(s, old) ==
    IF s = <<>> THEN <<>>
    ELSE IF StartsWith(s, old) THEN RemoveAll(SubSeq(s, Len(old) + 1, Len(s)), old)
    ELSE <<s[1]>> \o RemoveAll(Tail(s), old)

\* the indices of c in s
Positions(s, c) == {i \in 1..Len(s) : s[i] = c}

\* key.split('/')[-1]
LastSegment(s) ==
    LET P == Positions(s, "/") IN
    IF P = {} THEN s
    ELSE SubSeq(s, (CHOOSE p \in P : \A q \in P : q <= p) + 1, Len(s))

\* str.strip('{}')
RECURSIVE StripBraces(_)
StripBraces(s) ==
    IF s # <<>> /\ s[1] \in {"{", "}"} THEN StripBraces(Tail(s))
    ELSE IF s # <<>> /\ s[Len(s)] \in {"{", "}"}
         THEN StripBraces(SubSeq(s, 1, Len(s) - 1))
    ELSE s

\* ---------------------------------------------------------------- calendar
IsLeap(y) == (y % 4 = 0 /\ y % 100 # 0) \/ y % 400 = 0

DaysInMonth(y, m) ==
    IF m = 2 THEN (IF IsLeap(y) THEN 29 ELSE 28)
    ELSE IF m \in {4, 6, 9, 11} THEN 30 ELSE 31

\* datetime.date(y, m, d) does not raise
ValidYMD(y, m, d) ==
    /\ y >= 1
    /\ m \in 1..12
    /\ d >= 1
    /\ d <= DaysInMonth(y, m)

\* ------------------------------------------------------------ configuration
\* os.environ values (samples of a deployment)
CURATED_PREFIX == <<"c", "u", "r", "/">>
QUARANTINE_PREFIX == <<"q", "u", "a", "/">>
PII_HASH_SALT == <<"s", "1">>

ALLOWED_TX_TYPES ==
    { <<"W", "I", "R", "E">>, <<"A", "C", "H">>, <<"C", "A", "R", "D">>,
      <<"C", "A", "S", "H">>, <<"C", "H", "E", "C", "K">> }
ALLOWED_REGIONS == { <<"N", "E">>, <<"M", "W">>, <<"S">>, <<"W">> }

\* ------------------------------------------------------------ PII helpers
\* hashlib.sha256((value + PII_HASH_SALT).encode()).hexdigest(): the digest is
\* opaque, a function of the salted value alone
sha256_hex(value) == [sha256 |-> value \o PII_HASH_SALT]

mask_ssn(ssn) ==
    <<"*", "*", "*", "-", "*", "*", "-">>
        \o (IF Len(ssn) <= SsnTail THEN ssn
            ELSE SubSeq(ssn, Len(ssn) - SsnTail + 1, Len(ssn)))

mask_email(email) ==
    LET P == Positions(email, "@") IN
    IF P = {} THEN <<"*", "*", "*">>
    ELSE LET at == CHOOSE p \in P : \A q \in P : p <= q
             user == SubSeq(email, 1, at - 1)
             domain == SubSeq(email, at + 1, Len(email))
         IN IF user = <<>> THEN <<"*", "*", "*", "@">> \o domain
            ELSE <<user[1], "*", "*", "*", "@">> \o domain

\* -------------------------------------------------------------- parse_date
\* str.split(sep) for a one-character sep
RECURSIVE SplitOn(_, _)
SplitOn(s, c) ==
    LET P == Positions(s, c) IN
    IF P = {} THEN <<s>>
    ELSE LET p == CHOOSE x \in P : \A q \in P : x <= q IN
         <<SubSeq(s, 1, p - 1)>> \o SplitOn(SubSeq(s, p + 1, Len(s)), c)

NonZeroDigit(c) == IsDigit(c) /\ c # "0"

\* %m of strptime: 1[0-2]|0[1-9]|[1-9]
MonthForm(p) ==
    \/ Len(p) = 2 /\ p[1] = "1" /\ p[2] \in {"0", "1", "2"}
    \/ Len(p) = 2 /\ p[1] = "0" /\ NonZeroDigit(p[2])
    \/ Len(p) = 1 /\ NonZeroDigit(p[1])

\* %d of strptime: 3[0-1]|[1-2]\d|0[1-9]|[1-9]| [1-9]
DayForm(p) ==
    \/ Len(p) = 2 /\ p[1] = "3" /\ p[2] \in {"0", "1"}
    \/ Len(p) = 2 /\ p[1] \in {"1", "2"} /\ IsDigit(p[2])
    \/ Len(p) = 2 /\ p[1] \in {"0", " "} /\ NonZeroDigit(p[2])
    \/ Len(p) = 1 /\ NonZeroDigit(p[1])

\* datetime.strptime(d, "%Y-%m-%d") does not raise
DateOk(d) ==
    LET parts == SplitOn(d, "-") IN
    /\ Len(parts) = 3
    /\ Len(parts[1]) = 4 /\ AllDigits(parts[1])
    /\ MonthForm(parts[2])
    /\ DayForm(parts[3])
    /\ ValidYMD(ToInt(parts[1]), ToInt(parts[2]), ToInt(LStrip(parts[3])))

\* parse_date: the date's isoformat()
parse_date(d) ==
    LET parts == SplitOn(d, "-") IN
    Pad(ToInt(parts[1]), 4) \o <<"-">> \o Pad(ToInt(parts[2]), 2)
        \o <<"-">> \o Pad(ToInt(LStrip(parts[3])), 2)

\* ------------------------------------------------------------ parse_amount
LowerChar(c) ==
    CASE c = "N" -> "n" [] c = "A" -> "a" [] c = "I" -> "i" [] c = "F" -> "f"
      [] c = "T" -> "t" [] c = "Y" -> "y" [] OTHER -> c

Lower(s) == [i \in 1..Len(s) |-> LowerChar(s[i])]

FloatError == [kind |-> "error", neg |-> FALSE, mant |-> 0, scale |-> 0]

\* float(a) for the literals without an exponent or underscores: blanks
\* stripped, an optional sign, then nan, inf, infinity (any case) or decimal
\* digits with at most one point.  The value is (-1)^neg * mant / 10^scale.
FloatOf(a) ==
    LET s == Strip(a)
        signed == s # <<>> /\ s[1] \in {"+", "-"}
        neg == s # <<>> /\ s[1] = "-"
        body == IF signed THEN Tail(s) ELSE s
        word == Lower(body)
        P == Positions(body, ".")
        dot == IF P = {} THEN Len(body) + 1 ELSE CHOOSE p \in P : TRUE
        ip == SubSeq(body, 1, dot - 1)
        fp == SubSeq(body, dot + 1, Len(body))
    IN IF word = <<"n", "a", "n">>
       THEN [kind |-> "nan", neg |-> neg, mant |-> 0, scale |-> 0]
       ELSE IF word \in { <<"i", "n", "f">>,
                          <<"i", "n", "f", "i", "n", "i", "t", "y">> }
       THEN [kind |-> "inf", neg |-> neg, mant |-> 0, scale |-> 0]
       ELSE IF /\ Cardinality(P) <= 1
               /\ AllDigits(ip) /\ AllDigits(fp)
               /\ Len(ip) + Len(fp) >= 1
       THEN [kind |-> "num", neg |-> neg, mant |-> ToInt(ip \o fp),
             scale |-> Len(fp)]
       ELSE FloatError

\* val < 0 (nan compares false, -0.0 is not below 0)
FloatNegative(v) ==
    \/ v.kind = "inf" /\ v.neg
    \/ v.kind = "num" /\ v.neg /\ v.mant > 0

\* f"{val:.2f}": round-half-even on the decimal value (the drawn literals are
\* exact in binary or not a tie), the sign of a negative zero kept
Format2f(v) ==
    IF v.kind = "nan" THEN <<"n", "a", "n">>
    ELSE IF v.kind = "inf"
    THEN (IF v.neg THEN <<"-">> ELSE <<>>) \o <<"i", "n", "f">>
    ELSE LET den == Pow10(v.scale)
             num == v.mant * Pow10(AmountDecimals)
             q == num \div den
             r == num % den
             up == 2 * r > den \/ (2 * r = den /\ q % 2 = 1)
             c == IF up THEN q + 1 ELSE q
         IN (IF v.neg THEN <<"-">> ELSE <<>>)
                \o IntToStr(c \div Pow10(AmountDecimals)) \o <<".">>
                \o Pad(c % Pow10(AmountDecimals), AmountDecimals)

\* parse_amount does not raise
AmountOk(a) ==
    LET v == FloatOf(a) IN v.kind # "error" /\ ~FloatNegative(v)

parse_amount(a) == Format2f(FloatOf(a))

\* ------------------------------------------------- regular expressions, UUID
\* re `$` also matches just before one trailing newline
DropFinalNewline(s) ==
    IF s # <<>> /\ s[Len(s)] = "\n" THEN SubSeq(s, 1, Len(s) - 1) ELSE s

\* ^\d{3}-\d{2}-\d{4}$
SsnShape(t) ==
    /\ Len(t) = 11
    /\ t[4] = "-" /\ t[7] = "-"
    /\ \A i \in {1, 2, 3, 5, 6, 8, 9, 10, 11} : IsDigit(t[i])

SSN_RE_match(s) == SsnShape(s) \/ SsnShape(DropFinalNewline(s))

\* ^[^@\s]+@[^@\s]+\.[^@\s]+$
EmailShape(t) ==
    /\ Cardinality(Positions(t, "@")) = 1
    /\ \A i \in 1..Len(t) : ~IsSpace(t[i])
    /\ LET at == CHOOSE p \in Positions(t, "@") : TRUE IN
       /\ at > 1
       /\ \E j \in Positions(t, ".") : j > at + 1 /\ j < Len(t)

EMAIL_RE_match(s) == EmailShape(s) \/ EmailShape(DropFinalNewline(s))

\* uuid.UUID(hex) does not raise (hex over digits, letters, '-', '{', '}', ':')
IsUUID(s) ==
    LET h == RemoveChar(
                 StripBraces(RemoveAll(RemoveAll(s, <<"u", "r", "n", ":">>),
                                       <<"u", "u", "i", "d", ":">>)), "-")
    IN Len(h) = 32 /\ \A i \in 1..32 : IsHex(h[i])

\* HH[:MM[:SS]] of datetime.fromisoformat
IsoTimeOk(t) ==
    /\ Len(t) \in {2, 5, 8}
    /\ \A i \in 1..Len(t) : IF i \in {3, 6} THEN t[i] = ":" ELSE IsDigit(t[i])
    /\ ToInt(SubSeq(t, 1, 2)) < 24
    /\ Len(t) >= 5 => ToInt(SubSeq(t, 4, 5)) < 60
    /\ Len(t) >= 8 => ToInt(SubSeq(t, 7, 8)) < 60

\* datetime.fromisoformat(s) does not raise: YYYY-MM-DD, alone or followed by
\* one separator character and HH[:MM[:SS]]
IsoDateTimeOk(s) ==
    /\ Len(s) = 10 \/ Len(s) >= 13
    /\ s[5] = "-" /\ s[8] = "-"
    /\ \A i \in {1, 2, 3, 4, 6, 7, 9, 10} : IsDigit(s[i])
    /\ ValidYMD(ToInt(SubSeq(s, 1, 4)), ToInt(SubSeq(s, 6, 7)),
                ToInt(SubSeq(s, 9, 10)))
    /\ Len(s) >= 13 => IsoTimeOk(SubSeq(s, 12, Len(s)))

\* datetime.fromisoformat(r["created_at"].replace("Z", "")) does not raise
CreatedAtOk(s) == IsoDateTimeOk(RemoveChar(s, "Z"))

\* ------------------------------------------------------------ validate_row
required ==
    << "disclosure_id", "institution_name", "transaction_type",
       "transaction_amount", "transaction_date", "reporting_region",
       "ssn", "email", "created_at" >>

\* k not in r or r[k] is None or str(r[k]).strip() == ""
FieldMissing(r, k) ==
    \/ k \notin DOMAIN r
    \/ r[k] = None
    \/ Strip(r[k]) = <<>>

\* the index in required at which the loop of lines 78-80 returns, 0 if it ends
RECURSIVE FirstMissing(_, _)
FirstMissing(r, n) ==
    IF n > Len(required) THEN 0
    ELSE IF FieldMissing(r, required[n]) THEN n
    ELSE FirstMissing(r, n + 1)

Reject(code) == <<FALSE, <<code>>>>

validate_row_region_first(r) ==
    LET m == FirstMissing(r, 1) IN
    IF m # 0 THEN <<FALSE, <<"missing_required_field:", required[m]>>>>
    ELSE IF ~IsUUID(r.disclosure_id) THEN Reject("invalid_disclosure_id_uuid")
    ELSE IF r.reporting_region \notin ALLOWED_REGIONS
    THEN Reject("invalid_reporting_region")
    ELSE IF r.transaction_type \notin ALLOWED_TX_TYPES
    THEN Reject("invalid_transaction_type")
    ELSE IF ~AmountOk(r.transaction_amount) THEN Reject("invalid_transaction_amount")
    ELSE IF ~DateOk(r.transaction_date) THEN Reject("invalid_transaction_date")
    ELSE IF ~SSN_RE_match(r.ssn) THEN Reject("invalid_ssn_format")
    ELSE IF ~EMAIL_RE_match(r.email) THEN Reject("invalid_email_format")
    ELSE IF ~CreatedAtOk(r.created_at) THEN Reject("invalid_created_at")
    ELSE <<TRUE, <<>>>>

\* (ok, reason); the reason is a sequence of its parts, "" the empty one
validate_row(r) ==
    LET m == FirstMissing(r, 1) IN
    IF m # 0 THEN <<FALSE, <<"missing_required_field:", required[m]>>>>
    ELSE IF ~IsUUID(r.disclosure_id) THEN Reject("invalid_disclosure_id_uuid")
    ELSE IF r.transaction_type \notin ALLOWED_TX_TYPES
    THEN Reject("invalid_transaction_type")
    ELSE IF r.reporting_region \notin ALLOWED_REGIONS
    THEN Reject("invalid_reporting_region")
    ELSE IF ~AmountOk(r.transaction_amount) THEN Reject("invalid_transaction_amount")
    ELSE IF ~DateOk(r.transaction_date) THEN Reject("invalid_transaction_date")
    ELSE IF ~SSN_RE_match(r.ssn) THEN Reject("invalid_ssn_format")
    ELSE IF ~EMAIL_RE_match(r.email) THEN Reject("invalid_email_format")
    ELSE IF ~CreatedAtOk(r.created_at) THEN Reject("invalid_created_at")
    ELSE <<TRUE, <<>>>>

\* ------------------------------------------------- the sanitized record, items
\* the dict of lines 174-186
MaskedRecord(row) ==
    [ disclosure_id |-> row.disclosure_id,
      institution_name |-> Strip(row.institution_name),
      transaction_type |-> Strip(row.transaction_type),
      transaction_amount |-> parse_amount(row.transaction_amount),
      transaction_date |-> parse_date(row.transaction_date),
      reporting_region |-> Strip(row.reporting_region),
      ssn_masked |-> mask_ssn(Strip(row.ssn)),
      email_masked |-> mask_email(Strip(row.email)),
      ssn_hash |-> sha256_hex(Strip(row.ssn)),
      email_hash |-> sha256_hex(Strip(row.email)),
      created_at |-> Strip(row.created_at) ]

to_ddb_item(masked) ==
    [ disclosure_id |-> [S |-> masked.disclosure_id],
      institution_name |-> [S |-> masked.institution_name],
      transaction_type |-> [S |-> masked.transaction_type],
      transaction_amount |-> [N |-> masked.transaction_amount],
      transaction_date |-> [S |-> masked.transaction_date],
      reporting_region |-> [S |-> masked.reporting_region],
      ssn_masked |-> [S |-> masked.ssn_masked],
      email_masked |-> [S |-> masked.email_masked],
      ssn_hash |-> [S |-> masked.ssn_hash],
      email_hash |-> [S |-> masked.email_hash],
      created_at |-> [S |-> masked.created_at] ]

\* the loop of lines 168-187 with a rejected row never appended
RECURSIVE RowLoop_DropRejected(_, _, _)
RowLoop_DropRejected(rows, valid, invalid) ==
    IF rows = <<>> THEN <<valid, invalid>>
    ELSE LET row == Head(rows)
             v == validate_row(row)
         IN IF ~v[1] THEN RowLoop_DropRejected(Tail(rows), valid, invalid)
            ELSE RowLoop_DropRejected(Tail(rows),
                                      Append(valid, MaskedRecord(row)), invalid)

\* the loop of lines 168-187: <<valid_masked, invalid_rows>>
RECURSIVE RowLoop(_, _, _)
RowLoop(rows, valid, invalid) ==
    IF rows = <<>> THEN <<valid, invalid>>
    ELSE LET row == Head(rows)
             v == validate_row(row)
         IN IF ~v[1]
            THEN RowLoop(Tail(rows), valid,
                         Append(invalid, [row |-> row, error |-> v[2]]))
            ELSE RowLoop(Tail(rows), Append(valid, MaskedRecord(row)), invalid)

\* ------------------------------------------------------------- JSONL, names
\* json.dumps(x): one line, newlines inside strings escaped
json_dumps(x) == [t |-> "line", json |-> x]
Newline == [t |-> "nl"]

RECURSIVE JoinLines(_)
JoinLines(lines) ==
    IF lines = <<>> THEN <<>>
    ELSE IF Len(lines) = 1 THEN lines
    ELSE <<Head(lines), Newline>> \o JoinLines(Tail(lines))

\* "\n".join(json.dumps(x, ...) for x in xs) + "\n"
Jsonl(xs) == JoinLines([k \in 1..Len(xs) |-> json_dumps(xs[k])]) \o <<Newline>>

\* key.split('/')[-1].replace('.csv','')
Stem(key) == RemoveAll(LastSegment(key), <<".", "c", "s", "v">>)

CuratedKey(key) ==
    CURATED_PREFIX \o <<"m", "a", "s", "k", "e", "d", "_">> \o Stem(key)
        \o <<".", "j", "s", "o", "n", "l">>

QuarantineKey(key) ==
    QUARANTINE_PREFIX
        \o <<"q", "u", "a", "r", "a", "n", "t", "i", "n", "e", "_">> \o Stem(key)
        \o <<".", "j", "s", "o", "n", "l">>

\* ------------------------------------------------------------ sample inputs
Absent == <<"Absent">>      \* the column is not in the header

Uuid(c) ==
    Rep(c, 8) \o <<"-">> \o Rep(c, 4) \o <<"-">> \o Rep(c, 4) \o <<"-">>
        \o Rep(c, 4) \o <<"-">> \o Rep(c, 12)

\* the n-th of a run of distinct UUIDs
UuidN(n) ==
    Rep("0", 8) \o <<"-">> \o Rep("0", 4) \o <<"-">> \o Rep("0", 4) \o <<"-">>
        \o Rep("0", 4) \o <<"-">> \o Pad(n, 12)

IdSamples ==
    { Uuid("1"), <<"{">> \o Uuid("a") \o <<"}">>,
      <<"n", "o", "t", "-", "a", "-", "u", "u", "i", "d">>, <<" ", " ">>, Absent }
NameSamples == { <<" ", "A", "c", "m", "e", " ">>, None }
TypeSamples == { <<"W", "I", "R", "E">>, <<"w", "i", "r", "e">>, <<>> }
AmountSamples ==
    { <<"1", "0", "0">>, <<"-", "5", ".", "0", "0">>, <<"a", "b", "c">>,
      <<"n", "a", "n">>, <<"-", "0">>, <<"7", ".", "5">>, <<"I", "n", "f">>,
      <<" ", "0", ".", "1", "2", "5">> }
DateSamples ==
    { <<"2", "0", "2", "4", "-", "0", "1", "-", "1", "5">>,
      <<"2", "0", "2", "4", "-", "0", "2", "-", "3", "0">>,
      <<"2", "0", "2", "4", "-", "1", "-", "5">> }
RegionSamples == { <<"N", "E">>, <<"X", "X">> }
SsnSamples ==
    { <<"1", "2", "3", "-", "4", "5", "-", "6", "7", "8", "9">>,
      <<"1", "2", "3", "4", "5", "6", "7", "8", "9">> }
EmailSamples ==
    { <<"j", "@", "e", "x", ".", "c", "o">>, <<"j", ".", "e", "x", ".", "c", "o">> }
CreatedSamples ==
    { <<"2", "0", "2", "4", "-", "0", "1", "-", "1", "5", "T", "1", "0", ":",
        "0", "0", ":", "0", "0">>,
      <<"2", "0", "2", "4", "-", "0", "1", "-", "1", "5", "Z">>,
      <<"s", "o", "o", "n">> }

\* a csv.DictReader row: the columns of the header, each a str or None
MkRow(id, name, type, amount, date, region, ssn, email, created) ==
    LET full == [ disclosure_id |-> id, institution_name |-> name,
                  transaction_type |-> type, transaction_amount |-> amount,
                  transaction_date |-> date, reporting_region |-> region,
                  ssn |-> ssn, email |-> email, created_at |-> created ]
    IN [k \in {c \in DOMAIN full : full[c] # Absent} |-> full[k]]

RowSet ==
    { MkRow(id, name, type, amount, date, region, ssn, email, created) :
        id \in IdSamples, name \in NameSamples, type \in TypeSamples,
        amount \in AmountSamples, date \in DateSamples, region \in RegionSamples,
        ssn \in SsnSamples, email \in EmailSamples, created \in CreatedSamples }

\* the row of the end-to-end scenario, its id and amount given
GoodRow(id, amount) ==
    MkRow(id, <<" ", "A", "c", "m", "e", " ">>, <<"W", "I", "R", "E">>, amount,
          <<"2", "0", "2", "4", "-", "0", "1", "-", "1", "5">>, <<"N", "E">>,
          <<"1", "2", "3", "-", "4", "5", "-", "6", "7", "8", "9">>,
          <<"j", "@", "e", "x", ".", "c", "o">>,
          <<"2", "0", "2", "4", "-", "0", "1", "-", "1", "5", "T", "1", "0", ":",
            "0", "0", ":", "0", "0">>)

RowA == GoodRow(Uuid("1"), <<"1", "0", "0">>)
RowB == GoodRow(Uuid("1"), <<"7", ".", "5">>)       \* the id of RowA, another amount
RowX == [RowA EXCEPT !.ssn = <<"1", "2", "3", "4", "5", "6", "7", "8", "9">>]

\* an S3 object, by what get_object, decode and csv.DictReader make of it:
\* the rows of a CSV text, no such key, or bytes that decode or the reader reject
Csv(rows) == [kind |-> "csv", rows |-> rows]
NoSuchKey == [kind |-> "missing", rows |-> <<>>]
Undecodable == [kind |-> "undecodable", rows |-> <<>>]

Files == { Csv(<<RowA>>), Csv(<<RowB, RowX>>), Csv(<<RowX>>), NoSuchKey, Undecodable }

\* n accepted rows with distinct ids, then bad rejected ones
BigFile(n, bad) ==
    Csv([k \in 1..n |-> GoodRow(UuidN(k), <<"1", "0", "0">>)]
            \o [k \in 1..bad |-> RowX])

KeyA == <<"i", "n", "/", "a", ".", "c", "s", "v">>
KeyB == <<"b", ".", "c", "s", "v">>
Keys == {KeyA, KeyB}

RECURSIVE SeqsUpTo(_, _)
SeqsUpTo(S, n) ==
    IF n = 0 THEN {<<>>}
    ELSE LET shorter == SeqsUpTo(S, n - 1) IN
         shorter \cup {Append(q, x) : q \in {t \in shorter : Len(t) = n - 1}, x \in S}

\* the events: 1..MaxFiles notifications
Events == {e \in SeqsUpTo(Keys, MaxFiles) : e # <<>>}

Invocations == {1, 2}

\* ------------------------------------------------------------------- state
VARIABLES
    source,             \* the raw objects of the bucket, by key
    uploads,            \* times a raw object was replaced
    storeMode,          \* "accepting": every item of every batch is written;
                        \* "flaky": a call may leave items unprocessed or raise
    store,              \* the DynamoDB table: disclosure_id -> item
    objects,            \* the curated and quarantine objects, by key
    frame,              \* per invocation of lambda_handler: its position and locals
    ddb_last_request,   \* disclosure_id -> the item of the last batch write naming it
    s3_last_put,        \* output key -> the invocation and file of its last put
    returned_view       \* per invocation: the table and objects as it returned

vars ==
    << source, uploads, storeMode, store, objects, frame, ddb_last_request,
       s3_last_put, returned_view >>

Frame0(ev) ==
    [ pc |-> "loop", event |-> ev, idx |-> 0, key |-> <<>>,
      valid_masked |-> <<>>, invalid_rows |-> <<>>,
      off |-> 0, req |-> <<>>, resp |-> <<>>, retries |-> 0,
      initial_calls |-> 0, result |-> <<>> ]

Ended(i) == frame[i].pc \in {"done", "aborted"}

\* ------------------------------------------------------- the table, the bucket
\* the PutRequests of one call: an upsert by disclosure_id, item by item
PutAll(st, items) ==
    LET ids == {items[k].disclosure_id.S : k \in 1..Len(items)}
        last(id) == CHOOSE k \in 1..Len(items) :
                        /\ items[k].disclosure_id.S = id
                        /\ \A j \in (k + 1)..Len(items) :
                               items[j].disclosure_id.S # id
    IN [id \in DOMAIN st \cup ids |->
           IF id \in ids THEN items[last(id)] ELSE st[id]]

\* s3.put_object appending to the object it finds
PutObject_Append(objs, key, data) ==
    [k \in DOMAIN objs \cup {key} |->
        IF k = key THEN (IF key \in DOMAIN objs THEN objs[key] ELSE <<>>) \o data
        ELSE objs[k]]

\* s3.put_object: the object is replaced whole
PutObject(objs, key, data) ==
    [k \in DOMAIN objs \cup {key} |-> IF k = key THEN data ELSE objs[k]]

\* who put the object of a key last: invocation i, for file n of its event
LogPut(log, key, i, n) ==
    [k \in DOMAIN log \cup {key} |->
        IF k = key THEN [inv |-> i, file |-> n] ELSE log[k]]

\* the items of seq at the indices U, in order
Pick(seq, U) ==
    LET F[k \in 0..Len(seq)] ==
            IF k = 0 THEN <<>>
            ELSE IF k \in U THEN Append(F[k - 1], seq[k]) ELSE F[k - 1]
    IN F[Len(seq)]

\* the indices of a request the table may report as UnprocessedItems
UnprocessedChoices(request) ==
    LET all == 1..Len(request) IN
    IF storeMode = "accepting" THEN {{}}
    ELSE IF Len(request) <= FullSubsetLen THEN SUBSET all
    ELSE {{}, all, {1}, all \ {1}}

\* ddb.batch_write_item(RequestItems=request) by invocation i, whose frame
\* becomes f with the request and the response's UnprocessedItems
BatchWriteItem(i, request, f) ==
    \E items \in {request} :
        \E U \in UnprocessedChoices(items) :
            \E written \in {Pick(items, (1..Len(items)) \ U)},
               unprocessed \in {Pick(items, U)} :
                /\ store' = PutAll(store, written)
                /\ ddb_last_request' = PutAll(ddb_last_request, items)
                /\ frame' = [frame EXCEPT ![i] =
                                [f EXCEPT !.req = items, !.resp = unprocessed]]

\* ------------------------------------------------------------- batch_write
Min(a, b) == IF a <= b THEN a ELSE b

\* a slice one item too long
Chunk_Wide(items, off) ==
    SubSeq(items, off + 1, Min(off + BatchSize + 1, Len(items)))

\* a slice one item too short
Chunk_Short(items, off) ==
    SubSeq(items, off + 1, Min(off + BatchSize, Len(items)) - 1)

\* items[i:i+25]
Chunk(items, off) == SubSeq(items, off + 1, Min(off + BatchSize, Len(items)))

\* line 191: ddb_items = [to_ddb_item(x) for x in valid_masked]
ddb_items(f) == [k \in 1..Len(f.valid_masked) |-> to_ddb_item(f.valid_masked[k])]

\* while resp.get("UnprocessedItems") and retries < 5
\* the loop condition without its retry bound
RetryCondition_Unbounded(f) == f.resp # <<>>

RetryCondition(f) == f.resp # <<>> /\ f.retries < MaxRetries

\* lines 140-145: the next group's first call
BWChunk(i) ==
    LET f == frame[i] IN
    /\ f.pc = "bw_loop"
    /\ f.off < Len(f.valid_masked)
    /\ BatchWriteItem(i, Chunk(ddb_items(f), f.off),
                      [f EXCEPT !.pc = "bw_retry", !.retries = 0,
                                !.initial_calls = @ + 1])
    /\ UNCHANGED <<source, uploads, storeMode, objects, s3_last_put, returned_view>>

\* lines 146-148: one retry of the unprocessed items
BWRetry(i) ==
    LET f == frame[i] IN
    /\ f.pc = "bw_retry"
    /\ RetryCondition(f)
    /\ BatchWriteItem(i, f.resp, [f EXCEPT !.retries = @ + 1])
    /\ UNCHANGED <<source, uploads, storeMode, objects, s3_last_put, returned_view>>

\* the while loop ends: on to the next group
BWNextChunk(i) ==
    LET f == frame[i] IN
    /\ f.pc = "bw_retry"
    /\ ~RetryCondition(f)
    /\ frame' = [frame EXCEPT ![i] = [f EXCEPT !.pc = "bw_loop",
                                               !.off = @ + BatchSize]]
    /\ UNCHANGED <<source, uploads, storeMode, store, objects, ddb_last_request,
                   s3_last_put, returned_view>>

\* the range is exhausted: batch_write returns None
BWReturn(i) ==
    LET f == frame[i] IN
    /\ f.pc = "bw_loop"
    /\ f.off >= Len(f.valid_masked)
    /\ frame' = [frame EXCEPT ![i] = [f EXCEPT !.pc = "put_curated", !.off = 0,
                                               !.req = <<>>, !.resp = <<>>,
                                               !.retries = 0]]
    /\ UNCHANGED <<source, uploads, storeMode, store, objects, ddb_last_request,
                   s3_last_put, returned_view>>

\* a call about to be issued
CallPending(f) ==
    \/ f.pc = "bw_loop" /\ f.off < Len(f.valid_masked)
    \/ f.pc = "bw_retry" /\ RetryCondition(f)

\* ddb.batch_write_item raises (throttling, a service error): nothing in
\* batch_write or lambda_handler catches it
BWRaise(i) ==
    LET f == frame[i] IN
    /\ CallPending(f)
    /\ storeMode = "flaky"
    /\ frame' = [frame EXCEPT ![i] = [f EXCEPT !.pc = "aborted"]]
    /\ UNCHANGED <<source, uploads, storeMode, store, objects, ddb_last_request,
                   s3_last_put, returned_view>>

\* ----------------------------------------------------------- lambda_handler
\* lines 154-156: the next notification of the event
NextRecord(i) ==
    LET f == frame[i] IN
    /\ f.pc = "loop"
    /\ f.idx < Len(f.event)
    /\ frame' = [frame EXCEPT ![i] = [f EXCEPT !.pc = "get", !.idx = @ + 1,
                                               !.key = f.event[f.idx + 1]]]
    /\ UNCHANGED <<source, uploads, storeMode, store, objects, ddb_last_request,
                   s3_last_put, returned_view>>

\* the handler with each file's failure caught and the file skipped
ReadRows_Isolated(i) ==
    LET f == frame[i]
        obj == source[f.key]
        out == RowLoop(obj.rows, <<>>, <<>>)
    IN /\ f.pc = "get"
       /\ frame' = [frame EXCEPT ![i] =
                       IF obj.kind # "csv" THEN [f EXCEPT !.pc = "loop"]
                       ELSE [f EXCEPT
                               !.pc = IF out[1] # <<>> THEN "bw_loop"
                                      ELSE "put_curated",
                               !.valid_masked = out[1], !.invalid_rows = out[2],
                               !.initial_calls = 0]]
       /\ UNCHANGED <<source, uploads, storeMode, store, objects, ddb_last_request,
                      s3_last_put, returned_view>>

\* lines 158-192: get the object (it raises for a key that is not there), decode
\* and read the rows (either raises on bytes it rejects), sort the rows into
\* valid_masked and invalid_rows, and enter batch_write when a row was accepted
ReadRows(i) ==
    LET f == frame[i]
        obj == source[f.key]
        out == RowLoop(obj.rows, <<>>, <<>>)
    IN /\ f.pc = "get"
       /\ frame' = [frame EXCEPT ![i] =
                       IF obj.kind # "csv" THEN [f EXCEPT !.pc = "aborted"]
                       ELSE [f EXCEPT
                               !.pc = IF out[1] # <<>> THEN "bw_loop"
                                      ELSE "put_curated",
                               !.valid_masked = out[1], !.invalid_rows = out[2],
                               !.initial_calls = 0]]
       /\ UNCHANGED <<source, uploads, storeMode, store, objects, ddb_last_request,
                      s3_last_put, returned_view>>

\* lines 195-198
PutCurated(i) ==
    LET f == frame[i]
        out_key == CuratedKey(f.key)
    IN /\ f.pc = "put_curated"
       /\ frame' = [frame EXCEPT ![i] = [f EXCEPT !.pc = "put_quarantine"]]
       /\ IF f.valid_masked # <<>>
          THEN /\ objects' = PutObject(objects, out_key, Jsonl(f.valid_masked))
               /\ s3_last_put' = LogPut(s3_last_put, out_key, i, f.idx)
          ELSE UNCHANGED <<objects, s3_last_put>>
       /\ UNCHANGED <<source, uploads, storeMode, store, ddb_last_request,
                      returned_view>>

\* lines 201-204
PutQuarantine(i) ==
    LET f == frame[i]
        q_key == QuarantineKey(f.key)
    IN /\ f.pc = "put_quarantine"
       /\ frame' = [frame EXCEPT ![i] = [f EXCEPT !.pc = "loop"]]
       /\ IF f.invalid_rows # <<>>
          THEN /\ objects' = PutObject(objects, q_key, Jsonl(f.invalid_rows))
               /\ s3_last_put' = LogPut(s3_last_put, q_key, i, f.idx)
          ELSE UNCHANGED <<objects, s3_last_put>>
       /\ UNCHANGED <<source, uploads, storeMode, store, ddb_last_request,
                      returned_view>>

\* line 206
Return(i) ==
    LET f == frame[i] IN
    /\ f.pc = "loop"
    /\ f.idx >= Len(f.event)
    /\ frame' = [frame EXCEPT ![i] =
                    [f EXCEPT !.pc = "done",
                              !.result = <<[ok |-> TRUE,
                                            processed_files |-> Len(f.event)]>>]]
    /\ returned_view' = [returned_view EXCEPT ![i] =
                            <<[store |-> store, objects |-> objects]>>]
    /\ UNCHANGED <<source, uploads, storeMode, store, objects, ddb_last_request,
                   s3_last_put>>

\* the front half of the handler: up to the sorted rows
Ingest(i) == NextRecord(i) \/ ReadRows(i)

Step(i) ==
    \/ Ingest(i)
    \/ BWChunk(i) \/ BWRetry(i) \/ BWNextChunk(i) \/ BWReturn(i) \/ BWRaise(i)
    \/ PutCurated(i) \/ PutQuarantine(i)
    \/ Return(i)

\* the raw object of a key some invocation ingests is replaced (the upload that
\* sends the next notification)
Upload ==
    /\ uploads < MaxUploads
    /\ \E k \in {key \in Keys : \E i \in Invocations :
                                 \E n \in 1..Len(frame[i].event) :
                                     frame[i].event[n] = key},
          c \in Files :
          /\ c # source[k]
          /\ source' = [source EXCEPT ![k] = c]
    /\ uploads' = uploads + 1
    /\ UNCHANGED <<storeMode, store, objects, frame, ddb_last_request,
                   s3_last_put, returned_view>>

\* --------------------------------------------------------- specifications
InitWith(src, ev1, ev2, mode) ==
    /\ source = src
    /\ uploads = 0
    /\ storeMode = mode
    /\ store = <<>>
    /\ objects = <<>>
    /\ frame = [i \in Invocations |-> Frame0(IF i = 1 THEN ev1 ELSE ev2)]
    /\ ddb_last_request = <<>>
    /\ s3_last_put = <<>>
    /\ returned_view = [i \in Invocations |-> <<>>]

\* two concurrent invocations notified of the same key
Init ==
    \E c \in Files, mode \in {"accepting", "flaky"} :
        InitWith([k \in Keys |-> IF k = KeyA THEN c ELSE NoSuchKey],
                 <<KeyA>>, <<KeyA>>, mode)

Next == Upload \/ \E i \in Invocations : Step(i)

Spec == Init /\ [][Next]_vars

\* the same two invocations one after the other, the raw object unchanged
Second == Ended(1) /\ Step(2)

NextSeq == Step(1) \/ Second

SpecSeq == Init /\ [][NextSeq]_vars

\* one invocation handling an event of 1..MaxFiles notifications
InitOne ==
    \E src \in [Keys -> Files], ev \in Events, mode \in {"accepting", "flaky"} :
        InitWith(src, ev, <<>>, mode)

NextOne == Step(1)

SpecOne == InitOne /\ [][NextOne]_vars

\* one invocation, one file of up to MaxItems accepted rows, a flaky table
InitBatch ==
    \E file \in {BigFile(n, 0) : n \in 0..MaxItems} \cup {BigFile(0, 1)} :
        InitWith([k \in Keys |-> IF k = KeyA THEN file ELSE NoSuchKey],
                 <<KeyA>>, <<>>, "flaky")

NextBatch == Step(1)

\* a step of batch_write; the interpreter keeps running its loops
BatchWriteStep == BWChunk(1) \/ BWRetry(1) \/ BWNextChunk(1) \/ BWReturn(1)

SpecBatch == InitBatch /\ [][NextBatch]_vars /\ WF_vars(BatchWriteStep)

\* one invocation, one file of one row drawn from RowSet, up to the sorted rows
InitValidate ==
    \E r \in RowSet :
        InitWith([k \in Keys |-> IF k = KeyA THEN Csv(<<r>>) ELSE NoSuchKey],
                 <<KeyA>>, <<>>, "accepting")

NextValidate == Ingest(1)

SpecValidate == InitValidate /\ [][NextValidate]_vars

\* ------------------------------------------------------------ the properties
MinOf(S) == CHOOSE x \in S : \A y \in S : x <= y

\* the value of a column as the rules 2-9 read it ("" when there is none)
Val(r, k) == IF k \in DOMAIN r /\ r[k] # None THEN r[k] ELSE <<>>

MissingFields(r) == {n \in 1..Len(required) : FieldMissing(r, required[n])}

\* rule n, in the numbering of section 4.1, is violated by row r
RuleViolated(n, r) ==
    CASE n = 1 -> MissingFields(r) # {}
      [] n = 2 -> ~IsUUID(Val(r, "disclosure_id"))
      [] n = 3 -> Val(r, "transaction_type") \notin ALLOWED_TX_TYPES
      [] n = 4 -> Val(r, "reporting_region") \notin ALLOWED_REGIONS
      [] n = 5 -> ~AmountOk(Val(r, "transaction_amount"))
      [] n = 6 -> ~DateOk(Val(r, "transaction_date"))
      [] n = 7 -> ~SSN_RE_match(Val(r, "ssn"))
      [] n = 8 -> ~EMAIL_RE_match(Val(r, "email"))
      [] n = 9 -> ~CreatedAtOk(Val(r, "created_at"))

ViolatedRules(r) == {n \in 1..9 : RuleViolated(n, r)}

ReasonCodes ==
    << "missing_required_field:", "invalid_disclosure_id_uuid",
       "invalid_transaction_type", "invalid_reporting_region",
       "invalid_transaction_amount", "invalid_transaction_date",
       "invalid_ssn_format", "invalid_email_format", "invalid_created_at" >>

\* the outcome the rule order of the specification gives row r
ExpectedOutcome(r) ==
    LET V == ViolatedRules(r) IN
    IF V = {} THEN <<TRUE, <<>>>>
    ELSE IF MinOf(V) = 1
    THEN <<FALSE, <<ReasonCodes[1], required[MinOf(MissingFields(r))]>>>>
    ELSE <<FALSE, <<ReasonCodes[MinOf(V)]>>>>

\* invocation i has sorted the rows of the file it read
RowsSorted(i) == frame[i].pc \in {"bw_loop", "put_curated"}

\* C2: validate_row returns the reason of the lowest-numbered violated rule
\* (for rule 1 naming the first missing field in canonical order), and accepts
\* exactly the rows that violate no rule: each row of the file read is either
\* the one sanitized record or the one quarantine entry with that reason.
C2_FirstViolatedRuleWins ==
    RowsSorted(1) =>
        LET f == frame[1]
            r == source[f.key].rows[1]
            e == ExpectedOutcome(r)
        IN IF e[1]
           THEN f.invalid_rows = <<>> /\ Len(f.valid_masked) = 1
           ELSE /\ f.valid_masked = <<>>
                /\ f.invalid_rows = <<[row |-> r, error |-> e[2]]>>

\* a row violating rules 3, 4 and 7 at once was rejected for rule 3
C2_Witness ==
    /\ RowsSorted(1)
    /\ {3, 4, 7} \subseteq ViolatedRules(source[frame[1].key].rows[1])
    /\ frame[1].invalid_rows # <<>>
    /\ frame[1].invalid_rows[1].error = <<"invalid_transaction_type">>

\* ^\d+\.\d{2}$
MoneyShape(a) ==
    /\ Len(a) >= AmountDecimals + 2
    /\ a[Len(a) - AmountDecimals] = "."
    /\ \A k \in 1..Len(a) : k # Len(a) - AmountDecimals => IsDigit(a[k])

\* C8: the transaction_amount of every sanitized record is digits, a dot and
\* exactly two digits (so it denotes a number >= 0).
C8_AmountTwoDecimals ==
    RowsSorted(1) =>
        \A k \in 1..Len(frame[1].valid_masked) :
            MoneyShape(frame[1].valid_masked[k].transaction_amount)

\* the lines of a JSONL body (str.splitlines)
RECURSIVE SplitLines(_)
SplitLines(data) ==
    LET P == {k \in 1..Len(data) : data[k].t = "nl"} IN
    IF data = <<>> THEN <<>>
    ELSE IF P = {} THEN <<data>>
    ELSE <<SubSeq(data, 1, MinOf(P) - 1)>>
             \o SplitLines(SubSeq(data, MinOf(P) + 1, Len(data)))

Accepted(r) == validate_row(r)[1]
Rejected(r) == ~validate_row(r)[1]

\* the lines invocation i put under key for the file it just finished (none
\* when it put no object for that file)
OutputLines(i, key) ==
    IF key \in DOMAIN s3_last_put
       /\ s3_last_put[key] = [inv |-> i, file |-> frame[i].idx]
    THEN SplitLines(objects[key])
    ELSE <<>>

\* invocation i has finished a file and not yet started the next
FileDone(i) == frame[i].pc = "loop" /\ frame[i].idx >= 1

\* C1: once a file is ingested, the curated lines are the sanitized records of
\* the accepted rows, one line per row in file order, the quarantine lines the
\* entries of the rejected rows, and together they count the parsed rows.
C1_EveryRowInOneOutput ==
    FileDone(1) =>
        LET f == frame[1]
            rows == source[f.key].rows
            acc == SelectSeq(rows, Accepted)
            rej == SelectSeq(rows, Rejected)
            cur == OutputLines(1, CuratedKey(f.key))
            qua == OutputLines(1, QuarantineKey(f.key))
        IN /\ cur = [k \in 1..Len(acc) |-> <<json_dumps(MaskedRecord(acc[k]))>>]
           /\ qua = [k \in 1..Len(rej) |->
                        <<json_dumps([row |-> rej[k],
                                      error |-> validate_row(rej[k])[2]])>>]
           /\ Len(cur) + Len(qua) = Len(rows)

\* a file with an accepted and a rejected row was ingested
C1_Witness ==
    /\ FileDone(1)
    /\ Len(OutputLines(1, CuratedKey(frame[1].key))) = 1
    /\ Len(OutputLines(1, QuarantineKey(frame[1].key))) = 1

\* batch_write has returned normally for the file invocation i is handling
BatchWriteReturned(i) ==
    /\ frame[i].valid_masked # <<>>
    /\ frame[i].pc \in {"put_curated", "put_quarantine", "loop", "done"}

\* C3: batch_write does not return normally, and lambda_handler does not go on,
\* with an accepted record of the file that is not in the table.
C3_ResidualSurfaced ==
    BatchWriteReturned(1) =>
        \A k \in 1..Len(frame[1].valid_masked) :
            frame[1].valid_masked[k].disclosure_id \in DOMAIN store

InBatchWrite(i) == frame[i].pc \in {"bw_loop", "bw_retry"}

\* C4: batch_write terminates whatever the table answers: per group at most 5
\* retry calls follow the first call, a retry is issued only after a response
\* that reports unprocessed items, a response reporting none moves on to the
\* next group, and batch_write is left in the end.
C4_BatchWriteTerminates ==
    /\ [](frame[1].retries <= MaxRetries)
    /\ [][ /\ frame'[1].retries = frame[1].retries + 1 => frame[1].resp # <<>>
           /\ (frame[1].pc = "bw_retry" /\ frame[1].resp = <<>>)
                 => /\ frame'[1].pc = "bw_loop"
                    /\ frame'[1].off = frame[1].off + BatchSize ]_vars
    /\ InBatchWrite(1) ~> ~InBatchWrite(1)

\* the retry budget of a group was used up with items still unprocessed
C4_Witness ==
    /\ frame[1].pc = "bw_retry"
    /\ frame[1].retries = MaxRetries
    /\ frame[1].resp # <<>>
    /\ frame[1].off = BatchSize

CeilDiv(n, d) == (n + d - 1) \div d

\* C5: every batch-write call carries at most 25 items, all of the group being
\* written; the first call of a group carries the group whole, a retry exactly
\* what the previous response reported unprocessed; n items take ceil(n/25)
\* first calls.
C5_BatchesOfAtMost25 ==
    /\ [] LET f == frame[1]
              n == Len(f.valid_masked)
              group == (f.off + 1)..Min(f.off + BatchSize, n)
          IN /\ Len(f.req) <= BatchSize
             /\ f.pc = "bw_retry"
                    => /\ \A k \in 1..Len(f.req) :
                              \E j \in group :
                                  f.req[k] = to_ddb_item(f.valid_masked[j])
                       /\ f.retries = 0
                              => f.req = [j \in 1..Cardinality(group) |->
                                            to_ddb_item(f.valid_masked[f.off + j])]
                       /\ f.initial_calls = f.off \div BatchSize + 1
             /\ f.pc = "bw_loop" => f.initial_calls = CeilDiv(f.off, BatchSize)
             /\ BatchWriteReturned(1) => f.initial_calls = CeilDiv(n, BatchSize)
    /\ [][ frame'[1].retries = frame[1].retries + 1
             => frame'[1].req = frame[1].resp ]_vars

\* 26 accepted rows: the second group's call is a second first call
C5_Witness ==
    /\ Len(frame[1].valid_masked) = BatchSize + 1
    /\ BatchWriteReturned(1)
    /\ frame[1].initial_calls = 2

\* os.path.splitext of the key's base name: the last extension stripped
BaseNameNoExt(key) ==
    LET base == LastSegment(key)
        P == Positions(base, ".")
    IN IF P = {} THEN base
       ELSE SubSeq(base, 1, (CHOOSE p \in P : \A q \in P : q <= p) - 1)

BothDone == \A i \in Invocations : frame[i].pc = "done"

OutputOf(i, key) ==
    IF key = CuratedKey(frame[i].key) THEN Jsonl(frame[i].valid_masked)
    ELSE Jsonl(frame[i].invalid_rows)

FirstBadFile(i) ==
    LET B == {n \in 1..Len(frame[i].event) :
                 source[frame[i].event[n]].kind # "csv"}
    IN IF B = {} THEN 0 ELSE MinOf(B)

NoPutForCurrentFile(i) ==
    \A key \in DOMAIN s3_last_put :
        s3_last_put[key] # [inv |-> i, file |-> frame[i].idx]

\* C9: a file that raises aborts the invocation: no return value, neither of
\* its own objects put, no later file started, and the table and objects left
\* as they were; a value is returned only when no file raised on reading.
C9_AbortStopsBatch ==
    /\ [] /\ frame[1].pc = "aborted"
              => frame[1].result = <<>> /\ NoPutForCurrentFile(1)
          /\ frame[1].pc = "done" => FirstBadFile(1) = 0
          /\ FirstBadFile(1) # 0 => frame[1].idx <= FirstBadFile(1)
    /\ [][ /\ frame[1].pc = "aborted" => UNCHANGED <<frame, store, objects>>
           /\ frame'[1].pc = "aborted" => UNCHANGED <<store, objects>> ]_vars

\* the second file of an event raised after the first was written
C9_Witness ==
    /\ frame[1].pc = "aborted"
    /\ frame[1].idx = 2
    /\ FirstBadFile(1) = 2
    /\ DOMAIN objects # {}
    /\ store # <<>>

\* the records of the curated object of KeyA
CuratedRecords ==
    IF CuratedKey(KeyA) \in DOMAIN objects
    THEN LET lines == SplitLines(objects[CuratedKey(KeyA)]) IN
         {lines[k][1].json : k \in 1..Len(lines)}
    ELSE {}

\* C10 as stated: after two concurrent invocations on the same key, the table
\* accepting every write, every record of the curated object is in the table
\* with the same attribute values.
C10_SinksAgree ==
    (BothDone /\ storeMode = "accepting") =>
        \A rec \in CuratedRecords :
            /\ rec.disclosure_id \in DOMAIN store
            /\ store[rec.disclosure_id] = to_ddb_item(rec)

\* C10 amended: every record of the curated object has an item in the table
\* under its disclosure_id, and that item is one that one of the two
\* invocations wrote for it (not always the one the object came from).
C10_SinksAgreeOnSomeWrite ==
    (BothDone /\ storeMode = "accepting") =>
        \A rec \in CuratedRecords :
            /\ rec.disclosure_id \in DOMAIN store
            /\ \E i \in Invocations :
                  \E k \in 1..Len(frame[i].valid_masked) :
                      /\ frame[i].valid_masked[k].disclosure_id = rec.disclosure_id
                      /\ store[rec.disclosure_id]
                            = to_ddb_item(frame[i].valid_masked[k])

\* the curated object and the table ended with different amounts for one id
C10_Witness ==
    /\ BothDone /\ storeMode = "accepting"
    /\ \E rec \in CuratedRecords :
          /\ rec.disclosure_id \in DOMAIN store
          /\ store[rec.disclosure_id] # to_ddb_item(rec)

====
